---- MODULE Spec2Model ----
(***************************************************************************)
(* A model of whoami's Unix backend, src/os/unix.rs: the facade            *)
(* `impl Target for Os` and the helpers it calls (strlen, getpwuid,        *)
(* distro_xml, LangIter, lang, uname).                                     *)
(*                                                                         *)
(* Text is modelled as it is in the program: a string or byte buffer is a  *)
(* sequence of one-character strings, and split, trim, find and the other  *)
(* std operations are operators on such sequences.  One behaviour is one   *)
(* query: Init fixes the build target, the environment the query reads     *)
(* (environment variables, files under /etc, the kernel's answers) and the *)
(* query selector; the action of that query then runs the whole function   *)
(* and stores what it returned.                                            *)
(***************************************************************************)
EXTENDS Integers, Sequences, FiniteSets, TLC

VARIABLES
    query,      \* which operation the caller invokes
    target_os,  \* the cfg(target_os) the crate was built for
    environ,    \* process environment: LANG, DESKTOP_SESSION
    files,      \* the files the backend reads
    kernel,     \* answers of the native calls: uname, gethostname, getpwuid, ...
    pc,         \* "ready" | "iterating" | "done"
    result,     \* what the operation returned
    iter,       \* the LangIter value held by the caller
    returned    \* what each LangIter::next call returned, in order

vars == <<query, target_os, environ, files, kernel, pc, result, iter, returned>>

----------------------------------------------------------------------------
(* Bounds of the model *)

\* fragments concatenated into one LANG value
MaxLangFrags == 5
\* fragments concatenated into one /etc/os-release
MaxReleaseFrags == 5
\* fragments concatenated into one /etc/machine-info or /etc/nodename
MaxInfoFrags == 4
\* lines in the body of a property list
MaxPlistLines == 4
\* bytes of the longest host name the OS holds (MAXHOSTNAMELEN - 1 where it is 256)
MaxHostNameLen == 255
\* characters of a DESKTOP_SESSION value that is not a spelling of a known name
MaxSessionLen == 3
\* characters of a machine name that is not taken from the table
MaxMachineLen == 3
\* calls of LangIter::next made by the caller
MaxNextCalls == 4
\* bytes after the host name buffer that the model keeps track of
MaxOverread == 2

----------------------------------------------------------------------------
(* Option and Result *)

None == [some |-> FALSE, val |-> <<>>]
Some(v) == [some |-> TRUE, val |-> v]

\* Result<T>: Ok(value) or Err(io::Error of an ErrorKind, with a message)
Ok(v) == [kind |-> "Ok", val |-> v, err |-> "", msg |-> ""]
Err(k, m) == [kind |-> "Err", val |-> <<>>, err |-> k, msg |-> m]
\* a panic (todo!(), a slice index out of range) unwinds instead of returning
Panic(m) == [kind |-> "Panic", val |-> <<>>, err |-> "", msg |-> m]
\* no call has returned yet
NoResult == [kind |-> "None", val |-> <<>>, err |-> "", msg |-> ""]

----------------------------------------------------------------------------
(* Text: sequences of one-character strings *)

\* a byte that starts no UTF-8 sequence, and the character lossy decoding puts for it
InvalidByte == "\\xFF"
ReplacementChar == "U+FFFD"

RECURSIVE Flatten(_)
Flatten(ss) == IF ss = <<>> THEN <<>> ELSE Head(ss) \o Flatten(Tail(ss))

\* every concatenation of at most n fragments of F
FragStrings(F, n) == {Flatten(fs) : fs \in UNION {[1..k -> F] : k \in 0..n}}

Contains(s, c) == \E i \in 1..Len(s) : s[i] = c

\* str::split(c) / slice::split(|b| b == c): the pieces between the occurrences
\* of c, empty pieces included; never fewer than one piece
Split(s, c) ==
    LET at == {i \in 1..Len(s) : s[i] = c}
        n == Cardinality(at)
        sep(k) == IF k = 0 THEN 0
                  ELSE IF k = n + 1 THEN Len(s) + 1
                  ELSE CHOOSE i \in at : Cardinality({j \in at : j < i}) = k - 1
    IN  [k \in 1..(n + 1) |-> SubSeq(s, sep(k - 1) + 1, sep(k) - 1)]

\* str::trim_matches(c): every leading and every trailing c removed
TrimMatches(s, c) ==
    LET keep == {i \in 1..Len(s) : s[i] # c}
    IN  IF keep = {} THEN <<>>
        ELSE SubSeq(s, CHOOSE i \in keep : \A j \in keep : i <= j,
                       CHOOSE i \in keep : \A j \in keep : j <= i)

WhiteSpace == {" ", "\t", "\n", "\r"}

\* str::trim(): leading and trailing white space removed
Trim(s) ==
    LET keep == {i \in 1..Len(s) : s[i] \notin WhiteSpace}
    IN  IF keep = {} THEN <<>>
        ELSE SubSeq(s, CHOOSE i \in keep : \A j \in keep : i <= j,
                       CHOOSE i \in keep : \A j \in keep : j <= i)

\* str::starts_with(p)
StartsWith(s, p) == Len(s) >= Len(p) /\ SubSeq(s, 1, Len(p)) = p

EndsWith(s, p) == Len(s) >= Len(p) /\ SubSeq(s, Len(s) - Len(p) + 1, Len(s)) = p

\* str::trim_end_matches(p): the suffix p removed as often as it occurs
RECURSIVE TrimEndMatches(_, _)
TrimEndMatches(s, p) ==
    IF p # <<>> /\ EndsWith(s, p)
    THEN TrimEndMatches(SubSeq(s, 1, Len(s) - Len(p)), p)
    ELSE s

\* str::find(p): the byte offset (from 0) of the first occurrence of p
Find(s, p) ==
    LET at == {i \in 0..(Len(s) - Len(p)) : SubSeq(s, i + 1, i + Len(p)) = p}
    IN  IF at = {} THEN None ELSE Some(CHOOSE i \in at : \A j \in at : i <= j)

\* str::lines(): the pieces between line feeds, without a last empty piece,
\* each without one trailing carriage return
Lines(s) ==
    LET parts == Split(s, "\n")
        n == IF parts[Len(parts)] = <<>> THEN Len(parts) - 1 ELSE Len(parts)
        strip(l) == IF l # <<>> /\ l[Len(l)] = "\r" THEN SubSeq(l, 1, Len(l) - 1) ELSE l
    IN  [k \in 1..n |-> strip(parts[k])]

\* str::replace(a, b) for single characters
Replace(s, a, b) == [i \in 1..Len(s) |-> IF s[i] = a THEN b ELSE s[i]]

\* std::str::from_utf8 succeeds
IsUtf8(bytes) == ~Contains(bytes, InvalidByte)

\* String::from_utf8_lossy / to_string_lossy
ToStringLossy(bytes) == Replace(bytes, InvalidByte, ReplacementChar)

\* env::var: Err when the variable is unset or is not valid Unicode
env_var(name) ==
    IF environ[name].some /\ IsUtf8(environ[name].val)
    THEN Some(environ[name].val) ELSE None

\* env::var_os: the raw bytes, when set
env_var_os(name) == environ[name]

----------------------------------------------------------------------------
(* lang() and LangIter *)

DEFAULT_LANG == <<"e", "n", "_", "U", "S">>

\* fn lang(): the iterator over the tags of $LANG
lang ==
    LET var == IF env_var("LANG").some THEN env_var("LANG").val ELSE <<>>
        first == Split(var, ".")[1]
        array == IF first = <<"C">> THEN DEFAULT_LANG ELSE first
    IN  [array |-> Replace(array, "_", "-"), index |-> Some(TRUE)]

\* a next() that hands out the base language before the full tag
LangIter_next_base_first(it) ==
    IF ~it.index.some
    THEN [it |-> it, ret |-> None]
    ELSE IF it.index.val /\ Contains(it.array, "-")
    THEN [it |-> [array |-> it.array, index |-> Some(FALSE)],
          ret |-> Some(Split(it.array, "-")[1])]
    ELSE [it |-> [array |-> <<>>, index |-> None], ret |-> Some(it.array)]

\* a next() that never reaches the end state
LangIter_next_no_end(it) ==
    IF ~it.index.some
    THEN [it |-> it, ret |-> None]
    ELSE IF it.index.val /\ Contains(it.array, "-")
    THEN [it |-> [array |-> Split(it.array, "-")[1], index |-> Some(FALSE)],
          ret |-> Some(it.array)]
    ELSE [it |-> [array |-> <<>>, index |-> Some(FALSE)], ret |-> Some(it.array)]

\* <LangIter as Iterator>::next: the iterator after the call and what it returned
LangIter_next(it) ==
    IF ~it.index.some
    THEN [it |-> it, ret |-> None]
    ELSE IF it.index.val /\ Contains(it.array, "-")
    THEN [it |-> [array |-> Split(it.array, "-")[1], index |-> Some(FALSE)],
          ret |-> Some(it.array)]
    ELSE [it |-> [array |-> <<>>, index |-> None], ret |-> Some(it.array)]

NoIter == [array |-> <<>>, index |-> None]

----------------------------------------------------------------------------
(* Reading files *)

\* fs::read(path): the bytes, or the OS error when the file cannot be read
fs_read(name) ==
    IF files[name].some THEN Ok(files[name].val) ELSE Err("NotFound", "os error")

\* fs::read_to_string(path): fails too when the bytes are not UTF-8
fs_read_to_string(name) ==
    IF ~files[name].some THEN Err("NotFound", "os error")
    ELSE IF ~IsUtf8(files[name].val) THEN Err("InvalidData", "stream did not contain valid UTF-8")
    ELSE Ok(files[name].val)

----------------------------------------------------------------------------
(* distro_xml: the two fields of a property list *)

DICT_OPEN == <<"<", "d", "i", "c", "t", ">">>
DICT_CLOSE == <<"<", "/", "d", "i", "c", "t", ">">>
KEY_OPEN == <<"<", "k", "e", "y", ">">>
KEY_CLOSE == <<"<", "/", "k", "e", "y", ">">>
STRING_OPEN == <<"<", "s", "t", "r", "i", "n", "g", ">">>
STRING_CLOSE == <<"<", "/", "s", "t", "r", "i", "n", "g", ">">>
ProductName == <<"P", "r", "o", "d", "u", "c", "t", "N", "a", "m", "e">>
ProductUserVisibleVersion ==
    <<"P", "r", "o", "d", "u", "c", "t", "U", "s", "e", "r", "V", "i", "s", "i",
      "b", "l", "e", "V", "e", "r", "s", "i", "o", "n">>
ProductVersion ==
    <<"P", "r", "o", "d", "u", "c", "t", "V", "e", "r", "s", "i", "o", "n">>
MAC_OS_UNKNOWN ==
    <<"M", "a", "c", " ", "O", "S", " ", "(", "U", "n", "k", "n", "o", "w", "n", ")", " ">>

\* the locals of distro_xml before the first line
XmlStart ==
    [product_name |-> None, user_visible_version |-> None,
     set_product_name |-> FALSE, set_user_visible_version |-> FALSE]

\* a loop body in which ProductVersion arms the version even when one is captured
distro_xml_line_override(st, raw) ==
    LET line == Trim(raw)
    IN  IF StartsWith(line, KEY_OPEN)
        THEN LET key == TrimEndMatches(SubSeq(line, Len(KEY_OPEN) + 1, Len(line)), KEY_CLOSE)
             IN  IF key = ProductName THEN [st EXCEPT !.set_product_name = TRUE]
                 ELSE IF key = ProductUserVisibleVersion \/ key = ProductVersion
                 THEN [st EXCEPT !.set_user_visible_version = TRUE]
                 ELSE st
        ELSE IF StartsWith(line, STRING_OPEN)
        THEN LET value == TrimEndMatches(SubSeq(line, Len(STRING_OPEN) + 1, Len(line)),
                                         STRING_CLOSE)
             IN  IF st.set_product_name
                 THEN [st EXCEPT !.product_name = Some(value), !.set_product_name = FALSE]
                 ELSE IF st.set_user_visible_version
                 THEN [st EXCEPT !.user_visible_version = Some(value),
                                 !.set_user_visible_version = FALSE]
                 ELSE st
        ELSE st

\* one iteration of the loop over the lines of the dictionary
distro_xml_line(st, raw) ==
    LET line == Trim(raw)
    IN  IF StartsWith(line, KEY_OPEN)
        THEN LET key == TrimEndMatches(SubSeq(line, Len(KEY_OPEN) + 1, Len(line)), KEY_CLOSE)
             IN  IF key = ProductName THEN [st EXCEPT !.set_product_name = TRUE]
                 ELSE IF key = ProductUserVisibleVersion
                 THEN [st EXCEPT !.set_user_visible_version = TRUE]
                 ELSE IF key = ProductVersion
                 THEN IF ~st.user_visible_version.some
                      THEN [st EXCEPT !.set_user_visible_version = TRUE]
                      ELSE st
                 ELSE st
        ELSE IF StartsWith(line, STRING_OPEN)
        THEN LET value == TrimEndMatches(SubSeq(line, Len(STRING_OPEN) + 1, Len(line)),
                                         STRING_CLOSE)
             IN  IF st.set_product_name
                 THEN [st EXCEPT !.product_name = Some(value), !.set_product_name = FALSE]
                 ELSE IF st.set_user_visible_version
                 THEN [st EXCEPT !.user_visible_version = Some(value),
                                 !.set_user_visible_version = FALSE]
                 ELSE st
        ELSE st

\* the locals after the first n of the lines
RECURSIVE distro_xml_scan(_, _)
distro_xml_scan(lines, n) ==
    IF n = 0 THEN XmlStart
    ELSE distro_xml_line(distro_xml_scan(lines, n - 1), lines[n])

\* whether data[start + "<dict>".len()..end] is a slice: Rust panics otherwise
DictSliceOk(data) ==
    Find(data, DICT_OPEN).val + Len(DICT_OPEN) <= Find(data, DICT_CLOSE).val

\* the lines the loop of distro_xml visits
DictLines(data) ==
    IF Find(data, DICT_OPEN).some /\ Find(data, DICT_CLOSE).some
    THEN Lines(SubSeq(data, Find(data, DICT_OPEN).val + Len(DICT_OPEN) + 1,
                      Find(data, DICT_CLOSE).val))
    ELSE <<>>

\* the Ok(if let Some(product_name) ... ) at the end of distro_xml
distro_xml_combine(st) ==
    IF st.product_name.some
    THEN IF st.user_visible_version.some
         THEN Ok(st.product_name.val \o <<" ">> \o st.user_visible_version.val)
         ELSE Ok(st.product_name.val)
    ELSE IF st.user_visible_version.some
    THEN Ok(MAC_OS_UNKNOWN \o st.user_visible_version.val)
    ELSE Err("InvalidData", "Parsing failed")

\* fn distro_xml(data: String) -> Result<String>
distro_xml(data) ==
    IF Find(data, DICT_OPEN).some /\ Find(data, DICT_CLOSE).some /\ ~DictSliceOk(data)
    THEN Panic("slice index starts after its end")
    ELSE distro_xml_combine(distro_xml_scan(DictLines(data), Len(DictLines(data))))

----------------------------------------------------------------------------
(* Os::distro *)

PRETTY_NAME == <<"P", "R", "E", "T", "T", "Y", "_", "N", "A", "M", "E">>
NAME == <<"N", "A", "M", "E">>

ParsingFailed == Err("InvalidData", "Parsing failed")

\* the loop of distro() from line n on; fallback is the Option it carries
RECURSIVE distro_scan(_, _, _)
distro_scan(lines, n, fallback) ==
    IF n > Len(lines)
    THEN IF fallback.some THEN Ok(fallback.val) ELSE ParsingFailed
    ELSE LET j == Split(lines[n], "=")
         IN  IF j[1] = PRETTY_NAME
             THEN IF Len(j) >= 2 THEN Ok(TrimMatches(j[2], "\"")) ELSE ParsingFailed
             ELSE IF j[1] = NAME
             THEN IF Len(j) >= 2
                  THEN distro_scan(lines, n + 1, Some(TrimMatches(j[2], "\"")))
                  ELSE ParsingFailed
             ELSE distro_scan(lines, n + 1, fallback)

\* fn distro(self) -> Result<String>, under cfg(target_os)
distro ==
    IF target_os = "macos"
    THEN IF fs_read_to_string("server_plist").kind = "Ok"
         THEN distro_xml(fs_read_to_string("server_plist").val)
         ELSE IF fs_read_to_string("system_plist").kind = "Ok"
         THEN distro_xml(fs_read_to_string("system_plist").val)
         ELSE Err("NotFound", "Missing record")
    ELSE IF fs_read("os_release").kind # "Ok"
         THEN fs_read("os_release")
         ELSE distro_scan(Split(ToStringLossy(fs_read("os_release").val), "\n"), 1, None)

----------------------------------------------------------------------------
(* Native calls *)

\* getpwuid(name): the effective user's record from the user database
getpwuid(name) ==
    IF kernel.passwd = "error" THEN Err("Os", "errno")
    ELSE IF kernel.passwd = "none" THEN Err("NotFound", "Null record")
    ELSE IF name = "User" THEN Ok(kernel.pw_name)
    ELSE Ok(kernel.pw_gecos)

\* uname(&mut buf): 0 and the filled UtsName, or -1
uname ==
    IF kernel.uname_ok
    THEN [rc |-> 0, nodename |-> kernel.nodename, machine |-> kernel.machine]
    ELSE [rc |-> -1, nodename |-> <<>>, machine |-> <<>>]

\* os_from_cfstring(SCDynamicStoreCopyComputerName(..)): empty for a null
\* string and when CFStringGetCString fails
os_from_cfstring ==
    IF ~kernel.computer_name.some THEN <<>>
    ELSE IF kernel.cf_get_cstring_ok THEN kernel.computer_name.val
    ELSE <<>>

----------------------------------------------------------------------------
(* Os::hostname *)

\* Vec::<u8>::with_capacity(256)
HostCap == 256
\* the len handed to gethostname
HostLen == 255

NUL == "\\0"

MemLen == HostCap + MaxOverread

\* the allocation before gethostname writes to it: not initialised, so any
\* bytes; kernel.garbage_nul is where its first zero byte lies.  The bytes
\* after the capacity are whatever follows the allocation.
Uninit ==
    [i \in 1..MemLen |->
        IF i = kernel.garbage_nul \/ i = MemLen THEN NUL ELSE kernel.garbage_byte]

\* gethostname(buf, len): the return code and the memory afterwards.  A name
\* that does not fit in len bytes with its terminator is, by the libc in use,
\* refused (ENAMETOOLONG), cut and terminated, or cut and left unterminated.
gethostname(mem, len) ==
    LET name == kernel.host_name
        put(bytes) == [i \in 1..MemLen |-> IF i <= Len(bytes) THEN bytes[i] ELSE mem[i]]
    IN  IF kernel.gethostname_fails THEN [rc |-> -1, mem |-> mem]
        ELSE IF Len(name) + 1 <= len THEN [rc |-> 0, mem |-> put(name \o <<NUL>>)]
        ELSE IF kernel.libc = "refuse" THEN [rc |-> -1, mem |-> mem]
        ELSE IF kernel.libc = "cut_terminated"
        THEN [rc |-> 0, mem |-> put(SubSeq(name, 1, len - 1) \o <<NUL>>)]
        ELSE [rc |-> 0, mem |-> put(SubSeq(name, 1, len))]

\* unsafe fn strlen(cs): the bytes before the first zero byte
strlen(mem) == (CHOOSE i \in 1..Len(mem) : mem[i] = NUL /\ \A j \in 1..(i - 1) : mem[j] # NUL) - 1

\* fn hostname(self) -> Result<String>
hostname ==
    LET got == gethostname(Uninit, HostLen)
        string == SubSeq(got.mem, 1, strlen(got.mem))
    IN  IF got.rc = -1 THEN Err("Os", "last_os_error")
        ELSE IF IsUtf8(string) THEN Ok(string)
        ELSE Err("InvalidData", "Hostname not valid UTF-8")

----------------------------------------------------------------------------
(* Os::devicename *)

PRETTY_HOSTNAME ==
    <<"P", "R", "E", "T", "T", "Y", "_", "H", "O", "S", "T", "N", "A", "M", "E">>

\* the loop of devicename() over the lines of /etc/machine-info, from line n on
RECURSIVE devicename_scan(_, _)
devicename_scan(lines, n) ==
    IF n > Len(lines) THEN Err("NotFound", "Missing record")
    ELSE LET j == Split(lines[n], "=")
         IN  IF j[1] = PRETTY_HOSTNAME /\ Len(j) >= 2
             THEN Ok(j[2])
             ELSE devicename_scan(lines, n + 1)

\* fn devicename(self) -> Result<OsString>, under cfg(target_os)
devicename ==
    IF target_os = "macos"
    THEN IF os_from_cfstring = <<>>
         THEN Err("InvalidData", "Empty record")
         ELSE Ok(os_from_cfstring)
    ELSE IF target_os = "illumos"
    THEN IF fs_read("nodename").kind # "Ok" THEN fs_read("nodename")
         ELSE IF Split(fs_read("nodename").val, "\n")[1] = <<>>
         THEN Err("InvalidData", "Empty record")
         ELSE Ok(Split(fs_read("nodename").val, "\n")[1])
    ELSE IF fs_read("machine_info").kind # "Ok" THEN fs_read("machine_info")
         ELSE devicename_scan(Split(fs_read("machine_info").val, "\n"), 1)

----------------------------------------------------------------------------
(* Os::desktop_env *)

UpperCase ==
    <<"A", "B", "C", "D", "E", "F", "G", "H", "I", "J", "K", "L", "M",
      "N", "O", "P", "Q", "R", "S", "T", "U", "V", "W", "X", "Y", "Z">>
LowerCase ==
    <<"a", "b", "c", "d", "e", "f", "g", "h", "i", "j", "k", "l", "m",
      "n", "o", "p", "q", "r", "s", "t", "u", "v", "w", "x", "y", "z">>

\* u8::to_ascii_lowercase
ToAsciiLower(c) ==
    IF \E i \in 1..26 : UpperCase[i] = c
    THEN LowerCase[CHOOSE i \in 1..26 : UpperCase[i] = c]
    ELSE c

\* str::eq_ignore_ascii_case
EqIgnoreAsciiCase(a, b) ==
    /\ Len(a) = Len(b)
    /\ \A i \in 1..Len(a) : ToAsciiLower(a[i]) = ToAsciiLower(b[i])

AQUA == <<"A", "Q", "U", "A">>
GNOME == <<"G", "N", "O", "M", "E">>
LXDE == <<"L", "X", "D", "E">>
OPENBOX == <<"O", "P", "E", "N", "B", "O", "X">>
I3 == <<"I", "3">>
UBUNTU == <<"U", "B", "U", "N", "T", "U">>
PLASMA5 == <<"P", "L", "A", "S", "M", "A", "5">>
UnknownText == <<"U", "n", "k", "n", "o", "w", "n">>

\* a variant of DesktopEnv or Arch; name is what Unknown carries
Variant(v) == [variant |-> v, name |-> <<>>]
UnknownVariant(s) == [variant |-> "Unknown", name |-> s]

\* a value returned by a function that has no error to report
Value(v) == [kind |-> "Value", val |-> v, err |-> "", msg |-> ""]

\* a classification that compares the session name as it is written
desktop_env_class_exact(env) ==
    IF env = AQUA THEN Variant("Aqua")
    ELSE IF env = GNOME THEN Variant("Gnome")
    ELSE IF env = LXDE THEN Variant("Lxde")
    ELSE IF env = OPENBOX THEN Variant("Openbox")
    ELSE IF env = I3 THEN Variant("I3")
    ELSE IF env = UBUNTU THEN Variant("Ubuntu")
    ELSE IF env = PLASMA5 THEN Variant("Kde")
    ELSE UnknownVariant(env)

\* the if / else if chain of desktop_env() over the session name
desktop_env_class(env) ==
    IF EqIgnoreAsciiCase(env, AQUA) THEN Variant("Aqua")
    ELSE IF EqIgnoreAsciiCase(env, GNOME) THEN Variant("Gnome")
    ELSE IF EqIgnoreAsciiCase(env, LXDE) THEN Variant("Lxde")
    ELSE IF EqIgnoreAsciiCase(env, OPENBOX) THEN Variant("Openbox")
    ELSE IF EqIgnoreAsciiCase(env, I3) THEN Variant("I3")
    ELSE IF EqIgnoreAsciiCase(env, UBUNTU) THEN Variant("Ubuntu")
    ELSE IF EqIgnoreAsciiCase(env, PLASMA5) THEN Variant("Kde")
    ELSE UnknownVariant(env)

\* fn desktop_env(self) -> DesktopEnv, under cfg(target_os)
desktop_env ==
    IF target_os = "macos" THEN desktop_env_class(<<"A", "q", "u", "a">>)
    ELSE IF ~env_var_os("DESKTOP_SESSION").some THEN UnknownVariant(UnknownText)
    ELSE desktop_env_class(ToStringLossy(env_var_os("DESKTOP_SESSION").val))

----------------------------------------------------------------------------
(* Os::platform, Os::arch, Os::langs, Os::realname, Os::username *)

\* fn platform(self) -> Platform, under cfg(target_os)
platform ==
    IF target_os = "macos" THEN "MacOS"
    ELSE IF target_os \in {"freebsd", "dragonfly", "bitrig", "openbsd", "netbsd"} THEN "Bsd"
    ELSE IF target_os = "illumos" THEN "Illumos"
    ELSE "Linux"

\* the arms of the match in arch(): machine string and variant
ArchTable ==
    {
      [s |-> <<"a", "a", "r", "c", "h", "6", "4">>,
       arch |-> "Arm64"],
      [s |-> <<"a", "r", "m", "6", "4">>,
       arch |-> "Arm64"],
      [s |-> <<"a", "a", "r", "c", "h", "6", "4", "_", "b", "e">>,
       arch |-> "Arm64"],
      [s |-> <<"a", "r", "m", "v", "8", "b">>,
       arch |-> "Arm64"],
      [s |-> <<"a", "r", "m", "v", "8", "l">>,
       arch |-> "Arm64"],
      [s |-> <<"a", "r", "m", "v", "5">>,
       arch |-> "ArmV5"],
      [s |-> <<"a", "r", "m", "v", "6">>,
       arch |-> "ArmV6"],
      [s |-> <<"a", "r", "m">>,
       arch |-> "ArmV6"],
      [s |-> <<"a", "r", "m", "v", "7">>,
       arch |-> "ArmV7"],
      [s |-> <<"i", "3", "8", "6">>,
       arch |-> "I386"],
      [s |-> <<"i", "5", "8", "6">>,
       arch |-> "I586"],
      [s |-> <<"i", "6", "8", "6">>,
       arch |-> "I686"],
      [s |-> <<"i", "6", "8", "6", "-", "A", "T", "3", "8", "6">>,
       arch |-> "I686"],
      [s |-> <<"m", "i", "p", "s">>,
       arch |-> "Mips"],
      [s |-> <<"m", "i", "p", "s", "e", "l">>,
       arch |-> "MipsEl"],
      [s |-> <<"m", "i", "p", "s", "6", "4">>,
       arch |-> "Mips64"],
      [s |-> <<"m", "i", "p", "s", "6", "4", "e", "l">>,
       arch |-> "Mips64El"],
      [s |-> <<"p", "o", "w", "e", "r", "p", "c">>,
       arch |-> "PowerPc"],
      [s |-> <<"p", "p", "c">>,
       arch |-> "PowerPc"],
      [s |-> <<"p", "p", "c", "l", "e">>,
       arch |-> "PowerPc"],
      [s |-> <<"p", "o", "w", "e", "r", "p", "c", "6", "4">>,
       arch |-> "PowerPc64"],
      [s |-> <<"p", "p", "c", "6", "4">>,
       arch |-> "PowerPc64"],
      [s |-> <<"p", "p", "c", "6", "4", "l", "e">>,
       arch |-> "PowerPc64"],
      [s |-> <<"p", "o", "w", "e", "r", "p", "c", "6", "4", "l", "e">>,
       arch |-> "PowerPc64Le"],
      [s |-> <<"r", "i", "s", "c", "v", "3", "2">>,
       arch |-> "Riscv32"],
      [s |-> <<"r", "i", "s", "c", "v", "6", "4">>,
       arch |-> "Riscv64"],
      [s |-> <<"s", "3", "9", "0", "x">>,
       arch |-> "S390x"],
      [s |-> <<"s", "p", "a", "r", "c">>,
       arch |-> "Sparc"],
      [s |-> <<"s", "p", "a", "r", "c", "6", "4">>,
       arch |-> "Sparc64"],
      [s |-> <<"x", "8", "6", "_", "6", "4">>,
       arch |-> "X64"],
      [s |-> <<"a", "m", "d", "6", "4">>,
       arch |-> "X64"]
    }

\* a match without the amd64 alias
arch_class_no_alias(arch_str) ==
    IF \E e \in ArchTable : e.s = arch_str /\ e.s # <<"a", "m", "d", "6", "4">>
    THEN Variant((CHOOSE e \in ArchTable : e.s = arch_str).arch)
    ELSE UnknownVariant(arch_str)

\* match arch_str.as_ref() { ... }
arch_class(arch_str) ==
    IF \E e \in ArchTable : e.s = arch_str
    THEN Variant((CHOOSE e \in ArchTable : e.s = arch_str).arch)
    ELSE UnknownVariant(arch_str)

\* fn arch(self) -> Result<Arch>
arch ==
    IF uname.rc = -1 THEN Err("Os", "last_os_error")
    ELSE Ok(arch_class(ToStringLossy(uname.machine)))

\* fn langs(self) -> Vec<Language>: todo!()
langs == Panic("not yet implemented")

\* fn realname(self) -> Result<OsString>
realname == getpwuid("Real")

\* fn username(self) -> Result<OsString>
username == getpwuid("User")

----------------------------------------------------------------------------
(* The environment a query can meet *)

NoEnviron == [LANG |-> None, DESKTOP_SESSION |-> None]

NoFiles ==
    [os_release |-> None, machine_info |-> None, nodename |-> None,
     server_plist |-> None, system_plist |-> None]

NoKernel ==
    [uname_ok |-> TRUE, nodename |-> <<"h">>, machine |-> <<"x", "8", "6", "_", "6", "4">>,
     passwd |-> "found", pw_name |-> <<"u">>, pw_gecos |-> <<>>,
     computer_name |-> None, cf_get_cstring_ok |-> TRUE,
     host_name |-> <<"h">>, gethostname_fails |-> FALSE, libc |-> "refuse",
     garbage_nul |-> 1, garbage_byte |-> "g"]

\* the state before the call of query q, in an environment drawn from the sets
Ready(q, oses, environs, fileses, kernels) ==
    /\ query = q
    /\ target_os \in oses
    /\ environ \in environs
    /\ files \in fileses
    /\ kernel \in kernels
    /\ pc = "ready"
    /\ result = NoResult
    /\ iter = NoIter
    /\ returned = <<>>

LangFragments ==
    { <<"e", "n">>, <<"U", "S">>, <<"C">>, <<"_">>, <<".">>,
      <<"U", "T", "F", "-", "8">> }

LangValues ==
    {None, Some(<<InvalidByte>>)}
        \cup {Some(s) : s \in FragStrings(LangFragments, MaxLangFrags)}

InitLang ==
    Ready("lang", {"linux"},
          {[NoEnviron EXCEPT !.LANG = v] : v \in LangValues}, {NoFiles}, {NoKernel})

OsReleaseFragments == {PRETTY_NAME, NAME, <<"=">>, <<"\"">>, <<"a">>, <<"\n">>}

OsReleaseValues ==
    {None, Some(<<InvalidByte>>)}
        \cup {Some(s) : s \in FragStrings(OsReleaseFragments, MaxReleaseFrags)}

InitOsRelease ==
    Ready("distro", {"linux", "illumos"}, {NoEnviron},
          {[NoFiles EXCEPT !.os_release = v] : v \in OsReleaseValues}, {NoKernel})

KeyLine(k) == KEY_OPEN \o k \o KEY_CLOSE
StringLine(v) == STRING_OPEN \o v \o STRING_CLOSE
MacOsText == <<"m", "a", "c", "O", "S">>
VersionText == <<"1", "4", ".", "0">>

\* the lines a property list is made of, each with its line feed
PlistLines ==
    { KeyLine(ProductName) \o <<"\n">>,
      KeyLine(ProductUserVisibleVersion) \o <<"\n">>,
      KeyLine(ProductVersion) \o <<"\n">>,
      StringLine(MacOsText) \o <<"\n">>,
      <<"\t">> \o StringLine(VersionText) \o <<"\n">> }

\* documents: a dictionary, no dictionary, a dictionary never closed, an end
\* marker before the start marker
PlistDocs ==
    UNION { { DICT_OPEN \o <<"\n">> \o b \o DICT_CLOSE \o <<"\n">>,
              b,
              DICT_OPEN \o <<"\n">> \o b,
              DICT_CLOSE \o <<"\n">> \o DICT_OPEN \o <<"\n">> \o b }
            : b \in FragStrings(PlistLines, MaxPlistLines) }

InitPlist ==
    \/ Ready("distro", {"macos"}, {NoEnviron},
             {[NoFiles EXCEPT !.system_plist = Some(d)] : d \in PlistDocs}, {NoKernel})
    \/ Ready("distro", {"macos"}, {NoEnviron},
             {[NoFiles EXCEPT !.server_plist = v, !.system_plist = w] :
                 v \in {None, Some(<<InvalidByte>>),
                        Some(DICT_OPEN \o StringLine(MacOsText) \o DICT_CLOSE)},
                 w \in {None, Some(DICT_OPEN \o <<"\n">> \o KeyLine(ProductName) \o <<"\n">>
                                   \o StringLine(MacOsText) \o <<"\n">> \o DICT_CLOSE)}},
             {NoKernel})

MachineInfoFragments == {PRETTY_HOSTNAME, <<"=">>, <<"a">>, <<"\n">>}

InitDevicename ==
    \/ Ready("devicename", {"linux", "freebsd"}, {NoEnviron},
             {[NoFiles EXCEPT !.machine_info = v] :
                 v \in {None} \cup {Some(s) : s \in FragStrings(MachineInfoFragments, MaxInfoFrags)}},
             {[NoKernel EXCEPT !.uname_ok = b] : b \in BOOLEAN})
    \/ Ready("devicename", {"illumos"}, {NoEnviron},
             {[NoFiles EXCEPT !.nodename = v] :
                 v \in {None} \cup {Some(s) : s \in FragStrings({<<"a">>, <<"\n">>}, MaxInfoFrags)}},
             {NoKernel})
    \/ Ready("devicename", {"macos"}, {NoEnviron}, {NoFiles},
             {[NoKernel EXCEPT !.computer_name = v, !.cf_get_cstring_ok = b] :
                 v \in {None, Some(<<>>), Some(<<"a">>)}, b \in BOOLEAN})

\* a host name of n bytes
HostName(n) == [i \in 1..n |-> "h"]

\* host names: short ones, one that is not UTF-8, and those about as long as
\* the buffer
HostNames ==
    {HostName(n) : n \in {0, 1} \cup ((HostLen - 2)..MaxHostNameLen)}
        \cup {<<InvalidByte>>}

InitHostname ==
    Ready("hostname", {"linux", "illumos"}, {NoEnviron}, {NoFiles},
          {[NoKernel EXCEPT !.host_name = h, !.gethostname_fails = f,
                            !.libc = l, !.garbage_nul = g, !.garbage_byte = c] :
              h \in HostNames, f \in BOOLEAN,
              l \in {"refuse", "cut_terminated", "cut"},
              g \in {1} \cup (HostLen..MemLen), c \in {"g", InvalidByte}})

RECURSIVE CaseVariants(_)
\* every spelling of name in upper and lower case letters
CaseVariants(name) ==
    IF name = <<>> THEN {<<>>}
    ELSE {<<c>> \o r : c \in {Head(name), ToAsciiLower(Head(name))},
                       r \in CaseVariants(Tail(name))}

SessionValues ==
    {None}
        \cup {Some(s) : s \in UNION {CaseVariants(n) :
                 n \in {AQUA, GNOME, LXDE, OPENBOX, I3, UBUNTU, PLASMA5}}}
        \cup {Some(s) : s \in FragStrings({<<"i">>, <<"I">>, <<"3">>, <<"x">>, <<InvalidByte>>},
                                          MaxSessionLen)}

InitDesktopEnv ==
    \/ Ready("desktop_env", {"linux", "illumos"},
             {[NoEnviron EXCEPT !.DESKTOP_SESSION = v] : v \in SessionValues},
             {NoFiles}, {NoKernel})
    \/ Ready("desktop_env", {"macos"},
             {[NoEnviron EXCEPT !.DESKTOP_SESSION = v] : v \in {None, Some(GNOME)}},
             {NoFiles}, {NoKernel})

\* machine names the kernel reports: those of the table, and others
MachineValues ==
    {e.s : e \in ArchTable}
        \cup {<<"l", "o", "o", "n", "g", "a", "r", "c", "h", "6", "4">>}
        \cup FragStrings({<<"a">>, <<"r">>, <<"m">>, <<"6">>, <<"4">>}, MaxMachineLen)

InitArch ==
    Ready("arch", {"linux", "illumos"}, {NoEnviron}, {NoFiles},
          {[NoKernel EXCEPT !.uname_ok = b, !.machine = m] :
              b \in BOOLEAN, m \in MachineValues})

InitPasswd ==
    \/ Ready("realname", {"linux"}, {NoEnviron}, {NoFiles},
             {[NoKernel EXCEPT !.passwd = p, !.pw_gecos = g] :
                 p \in {"error", "none", "found"}, g \in {<<>>, <<"A", " ", "B">>}})
    \/ Ready("username", {"linux"}, {NoEnviron}, {NoFiles},
             {[NoKernel EXCEPT !.passwd = p, !.pw_name = n] :
                 p \in {"error", "none", "found"}, n \in {<<"u">>, <<"r", "o", "o", "t">>}})

TargetOses ==
    {"linux", "android", "macos", "ios", "freebsd", "dragonfly", "openbsd", "netbsd",
     "illumos"}

InitPlatform == Ready("platform", TargetOses, {NoEnviron}, {NoFiles}, {NoKernel})

InitLangs == Ready("langs", {"linux", "macos"}, {NoEnviron}, {NoFiles}, {NoKernel})

----------------------------------------------------------------------------
(* Operations *)

\* what a call of a facade operation leaves as it is
env == <<query, target_os, environ, files, kernel, iter, returned>>

\* the caller evaluates lang() and holds the iterator
Lang ==
    /\ query = "lang" /\ pc = "ready"
    /\ iter' = lang
    /\ pc' = "iterating"
    /\ UNCHANGED <<query, target_os, environ, files, kernel, result, returned>>

\* the caller calls next() on the iterator it holds
IterNext ==
    /\ query = "lang" /\ pc = "iterating"
    /\ Len(returned) < MaxNextCalls
    /\ iter' = LangIter_next(iter).it
    /\ returned' = Append(returned, LangIter_next(iter).ret)
    /\ UNCHANGED <<query, target_os, environ, files, kernel, pc, result>>

\* the caller invokes Os::langs, which runs to its end and returns
Langs ==
    /\ query = "langs" /\ pc = "ready"
    /\ result' = langs
    /\ pc' = "done"
    /\ UNCHANGED env

\* the caller invokes Os::realname, which runs to its end and returns
Realname ==
    /\ query = "realname" /\ pc = "ready"
    /\ result' = realname
    /\ pc' = "done"
    /\ UNCHANGED env

\* the caller invokes Os::username, which runs to its end and returns
Username ==
    /\ query = "username" /\ pc = "ready"
    /\ result' = username
    /\ pc' = "done"
    /\ UNCHANGED env

\* the caller invokes Os::devicename, which runs to its end and returns
Devicename ==
    /\ query = "devicename" /\ pc = "ready"
    /\ result' = devicename
    /\ pc' = "done"
    /\ UNCHANGED env

\* the caller invokes Os::hostname, which runs to its end and returns
Hostname ==
    /\ query = "hostname" /\ pc = "ready"
    /\ result' = hostname
    /\ pc' = "done"
    /\ UNCHANGED env

\* the caller invokes Os::distro, which runs to its end and returns
Distro ==
    /\ query = "distro" /\ pc = "ready"
    /\ result' = distro
    /\ pc' = "done"
    /\ UNCHANGED env

\* the caller invokes Os::desktop_env, which runs to its end and returns
DesktopEnv ==
    /\ query = "desktop_env" /\ pc = "ready"
    /\ result' = Value(desktop_env)
    /\ pc' = "done"
    /\ UNCHANGED env

\* the caller invokes Os::platform, which runs to its end and returns
Platform ==
    /\ query = "platform" /\ pc = "ready"
    /\ result' = Value(platform)
    /\ pc' = "done"
    /\ UNCHANGED env

\* the caller invokes Os::arch, which runs to its end and returns
Arch ==
    /\ query = "arch" /\ pc = "ready"
    /\ result' = arch
    /\ pc' = "done"
    /\ UNCHANGED env

----------------------------------------------------------------------------
(* Specifications *)

\* the iterator of lang()
NextLang == Lang \/ IterNext
SpecLang == InitLang /\ [][NextLang]_vars

\* distro() reading /etc/os-release
NextDistro == Distro
SpecOsRelease == InitOsRelease /\ [][NextDistro]_vars

\* distro() reading a property list through distro_xml
NextDistroXml == Distro
SpecDistroXml == InitPlist /\ [][NextDistroXml]_vars

\* devicename()
NextDevicename == Devicename
SpecDevicename == InitDevicename /\ [][NextDevicename]_vars

\* the two KEY=VALUE scans
InitRecords == InitOsRelease \/ InitDevicename
NextRecords == Distro \/ Devicename
SpecRecords == InitRecords /\ [][NextRecords]_vars

\* hostname()
NextHostname == Hostname
SpecHostname == InitHostname /\ [][NextHostname]_vars

\* desktop_env()
NextDesktopEnv == DesktopEnv
SpecDesktopEnv == InitDesktopEnv /\ [][NextDesktopEnv]_vars

\* arch()
NextArch == Arch
SpecArch == InitArch /\ [][NextArch]_vars

\* the facade: any one of the nine operations of impl Target for Os
Init ==
    \/ InitLangs
    \/ InitPasswd
    \/ InitDevicename
    \/ InitHostname
    \/ InitOsRelease
    \/ InitPlist
    \/ InitDesktopEnv
    \/ InitPlatform
    \/ InitArch

Next ==
    \/ Langs
    \/ Realname
    \/ Username
    \/ Devicename
    \/ Hostname
    \/ Distro
    \/ DesktopEnv
    \/ Platform
    \/ Arch

Spec == Init /\ [][Next]_vars

----------------------------------------------------------------------------
(* Claims about lang() *)

\* the tag lang() iterates over: encoding suffix dropped, C replaced by the
\* default, underscores turned into hyphens
NormalizedTag == lang.array

\* the part of s before its first c
BeforeFirst(s, c) ==
    SubSeq(s, 1, (CHOOSE i \in 1..Len(s) :
                    s[i] = c /\ \A j \in 1..(i - 1) : s[j] # c) - 1)

\* C2 as stated: when the normalized tag has a hyphen, the first item emitted is
\* the base language and the second is the full tag.
C2_BaseThenFull ==
    (query = "lang" /\ pc = "iterating" /\ Contains(NormalizedTag, "-")) =>
        /\ Len(returned) >= 1 => returned[1] = Some(BeforeFirst(NormalizedTag, "-"))
        /\ Len(returned) >= 2 => returned[2] = Some(NormalizedTag)

\* C2 amended: when the normalized tag has a hyphen, the first item emitted is
\* the full tag and the second is the base language (the part before the first
\* hyphen); en_US.UTF-8 and C both give ["en-US", "en"].
C2_FullThenBase ==
    (query = "lang" /\ pc = "iterating" /\ Contains(NormalizedTag, "-")) =>
        /\ Len(returned) >= 1 => returned[1] = Some(NormalizedTag)
        /\ Len(returned) >= 2 => returned[2] = Some(BeforeFirst(NormalizedTag, "-"))

C2_Witness ==
    /\ environ.LANG = Some(<<"e", "n", "_", "U", "S", ".", "U", "T", "F", "-", "8">>)
    /\ Len(returned) >= 2
    /\ returned[1] = Some(<<"e", "n", "-", "U", "S">>)
    /\ returned[2] = Some(<<"e", "n">>)

Emitted == {i \in 1..Len(returned) : returned[i].some}

\* C7: the iterator emits exactly one item when the normalized tag has no
\* hyphen and exactly two distinct items when it has one, never the same value
\* twice, and after the first end-of-sequence every later next() returns
\* end-of-sequence.
C7_AtMostTwoThenEnd ==
    (query = "lang" /\ pc = "iterating") =>
        /\ Cardinality(Emitted) <= 2
        /\ \A i, j \in 1..Len(returned) :
              (i < j /\ ~returned[i].some) => ~returned[j].some
        /\ \A i, j \in Emitted : i # j => returned[i] # returned[j]
        /\ Len(returned) >= 1 => returned[1].some
        /\ Len(returned) >= 2 => (returned[2].some <=> Contains(NormalizedTag, "-"))
        /\ Len(returned) >= 3 => ~returned[3].some

C7_Witness ==
    /\ environ.LANG = Some(<<"e", "n">>)
    /\ Len(returned) >= 3
    /\ returned[1] = Some(<<"e", "n">>)
    /\ ~returned[2].some /\ ~returned[3].some

----------------------------------------------------------------------------
(* Claims about the KEY=VALUE scans of distro() and devicename() *)

\* the part of s after its first c
AfterFirst(s, c) ==
    SubSeq(s, 1 + (CHOOSE i \in 1..Len(s) :
                     s[i] = c /\ \A j \in 1..(i - 1) : s[j] # c), Len(s))

\* a line KEY=... : the text before its first '=' is the key
HasKey(line, key) == Contains(line, "=") /\ BeforeFirst(line, "=") = key

\* the smallest member of a set of numbers
Min(S) == CHOOSE i \in S : \A j \in S : i <= j

OsReleaseLines == Split(ToStringLossy(files.os_release.val), "\n")

DistroRead ==
    query = "distro" /\ pc = "done" /\ target_os # "macos" /\ files.os_release.some

\* C1: when some line of /etc/os-release has the key PRETTY_NAME, distro()
\* returns the quote-stripped value of the first such line whatever comes
\* before it; when none has but some line has the key NAME, it returns a
\* quote-stripped NAME value; it fails with the parse error only when neither
\* key is present.  (The value is read here as the code reads it, the text
\* between the first and the second '=': C6 is about the rest of the line.)
C1_PrettyNameWins ==
    DistroRead =>
        LET lines == OsReleaseLines
            pretty == {i \in 1..Len(lines) : HasKey(lines[i], PRETTY_NAME)}
            names == {i \in 1..Len(lines) : HasKey(lines[i], NAME)}
        IN  IF pretty # {}
            THEN result = Ok(TrimMatches(Split(lines[Min(pretty)], "=")[2], "\""))
            ELSE IF names # {}
            THEN \E i \in names : result = Ok(TrimMatches(Split(lines[i], "=")[2], "\""))
            ELSE result = ParsingFailed

\* C6: the value returned for a matched key is the whole rest of its line
\* after the first '=' (quote-stripped in distro(), as it is in devicename()).
C6_SplitOnFirstEquals ==
    /\ (DistroRead /\ result.kind = "Ok") =>
          \E i \in 1..Len(OsReleaseLines) :
              /\ HasKey(OsReleaseLines[i], PRETTY_NAME) \/ HasKey(OsReleaseLines[i], NAME)
              /\ result.val = TrimMatches(AfterFirst(OsReleaseLines[i], "="), "\"")
    /\ (/\ query = "devicename" /\ pc = "done"
        /\ target_os \notin {"macos", "illumos"}
        /\ result.kind = "Ok") =>
          \E line \in {Split(files.machine_info.val, "\n")[i] :
                          i \in 1..Len(Split(files.machine_info.val, "\n"))} :
              /\ HasKey(line, PRETTY_HOSTNAME)
              /\ result.val = AfterFirst(line, "=")

\* /etc/machine-info cannot be read or holds no PRETTY_HOSTNAME record
NoPrettyHostname ==
    \/ ~files.machine_info.some
    \/ \A i \in 1..Len(Split(files.machine_info.val, "\n")) :
          ~HasKey(Split(files.machine_info.val, "\n")[i], PRETTY_HOSTNAME)

\* C3: on platforms other than macOS and Illumos, when /etc/machine-info
\* gives no pretty host name and uname succeeds, devicename() returns the
\* uname node name.
C3_UnameFallback ==
    (/\ query = "devicename" /\ pc = "done"
     /\ target_os \notin {"macos", "illumos"}
     /\ NoPrettyHostname
     /\ uname.rc = 0) =>
        result = Ok(uname.nodename)

----------------------------------------------------------------------------
(* Claims about distro_xml *)

\* the property list distro() hands to distro_xml
PlistRead ==
    IF fs_read_to_string("server_plist").kind = "Ok"
    THEN fs_read_to_string("server_plist").val
    ELSE fs_read_to_string("system_plist").val

XmlParsed ==
    /\ query = "distro" /\ pc = "done" /\ target_os = "macos"
    /\ fs_read_to_string("server_plist").kind = "Ok"
          \/ fs_read_to_string("system_plist").kind = "Ok"
    /\ result.kind # "Panic"

\* the trimmed line is <key>k</key>
IsKeyLine(line, k) ==
    /\ StartsWith(Trim(line), KEY_OPEN)
    /\ TrimEndMatches(SubSeq(Trim(line), Len(KEY_OPEN) + 1, Len(Trim(line))), KEY_CLOSE) = k

\* the trimmed line is <string>...
IsStringLine(line) == StartsWith(Trim(line), STRING_OPEN)

\* the string of a string line
StringOf(line) ==
    TrimEndMatches(SubSeq(Trim(line), Len(STRING_OPEN) + 1, Len(Trim(line))), STRING_CLOSE)

\* the fields captured after the first n lines of the dictionary
Captured(n) == distro_xml_scan(DictLines(PlistRead), n)

\* the result read off the fields captured at the end of the scan
XmlOutcome ==
    LET name == Captured(Len(DictLines(PlistRead))).product_name
        version == Captured(Len(DictLines(PlistRead))).user_visible_version
    IN  IF name.some /\ version.some THEN result = Ok(name.val \o <<" ">> \o version.val)
        ELSE IF name.some THEN result = Ok(name.val)
        ELSE IF version.some THEN result = Ok(MAC_OS_UNKNOWN \o version.val)
        ELSE result = Err("InvalidData", "Parsing failed")

\* C4 as stated: the result is read off the captured fields, and a key line
\* followed by its string line always results in that field being captured
\* with that string.
C4_KeyThenStringCaptures ==
    XmlParsed =>
        /\ XmlOutcome
        /\ \A i \in 1..(Len(DictLines(PlistRead)) - 1) :
              LET lines == DictLines(PlistRead)
              IN  IsStringLine(lines[i + 1]) =>
                    /\ IsKeyLine(lines[i], ProductName) =>
                          Captured(i + 1).product_name = Some(StringOf(lines[i + 1]))
                    /\ (\/ IsKeyLine(lines[i], ProductUserVisibleVersion)
                        \/ IsKeyLine(lines[i], ProductVersion)) =>
                          Captured(i + 1).user_visible_version = Some(StringOf(lines[i + 1]))

\* C4 amended: the result is read off the captured fields.  A ProductName key
\* line followed by a string line always results in the name being captured
\* with that string.  A version key line followed by a string line results in
\* the version being captured with that string only when no ProductName key is
\* still waiting for its string (else the string is captured as the name and
\* the version stays as it was); and a ProductVersion key line met when a
\* version is already captured and no version key is waiting changes nothing:
\* the captured version is kept.
C4_KeyThenStringCapturesUnlessShadowed ==
    XmlParsed =>
        /\ XmlOutcome
        /\ \A i \in 1..(Len(DictLines(PlistRead)) - 1) :
              LET lines == DictLines(PlistRead)
                  before == Captured(i - 1)
                  after == Captured(i + 1)
                  value == Some(StringOf(lines[i + 1]))
                  kept == ~before.set_user_visible_version /\ before.user_visible_version.some
              IN  IsStringLine(lines[i + 1]) =>
                    /\ IsKeyLine(lines[i], ProductName) => after.product_name = value
                    /\ (/\ \/ IsKeyLine(lines[i], ProductUserVisibleVersion)
                           \/ IsKeyLine(lines[i], ProductVersion)
                        /\ before.set_product_name) =>
                          /\ after.product_name = value
                          /\ after.user_visible_version = before.user_visible_version
                    /\ (/\ IsKeyLine(lines[i], ProductUserVisibleVersion)
                        /\ ~before.set_product_name) =>
                          after.user_visible_version = value
                    /\ (/\ IsKeyLine(lines[i], ProductVersion)
                        /\ ~before.set_product_name) =>
                          after.user_visible_version =
                              IF kept THEN before.user_visible_version ELSE value

\* a ProductVersion key and its string after a captured version: the first
\* version is the one returned
C4_Witness ==
    /\ XmlParsed
    /\ DictLines(PlistRead) =
          << <<>>, KeyLine(ProductUserVisibleVersion), StringLine(MacOsText),
             KeyLine(ProductVersion), <<"\t">> \o StringLine(VersionText) >>
    /\ result = Ok(MAC_OS_UNKNOWN \o MacOsText)

----------------------------------------------------------------------------
(* Claims about the facade *)

\* C5: every operation of the facade ends by returning a value or a typed
\* error; none of them panics.
C5_NoPanic == pc = "done" => result.kind \in {"Ok", "Err", "Value"}

\* C8: hostname() never returns Ok with a cut name: what it returns as Ok is
\* the OS host name; a host name longer than the 255 usable bytes makes it
\* fail; and the length strlen finds never exceeds the capacity of the buffer.
C8_NoTruncatedHostname ==
    (query = "hostname" /\ pc = "done") =>
        /\ result.kind = "Ok" => result.val = kernel.host_name
        /\ Len(kernel.host_name) > HostLen => result.kind = "Err"
        /\ gethostname(Uninit, HostLen).rc = 0 =>
              strlen(gethostname(Uninit, HostLen).mem) <= HostCap

\* the spellings of the session names and the variant of each
KnownSessions ==
    { [s |-> AQUA, v |-> "Aqua"], [s |-> GNOME, v |-> "Gnome"], [s |-> LXDE, v |-> "Lxde"],
      [s |-> OPENBOX, v |-> "Openbox"], [s |-> I3, v |-> "I3"],
      [s |-> UBUNTU, v |-> "Ubuntu"], [s |-> PLASMA5, v |-> "Kde"] }

DesktopEnvRead == query = "desktop_env" /\ pc = "done" /\ target_os # "macos"

\* what C9 says of every DESKTOP_SESSION value but the unknown ones
DesktopEnvKnown ==
    /\ result.kind = "Value"
    /\ ~environ.DESKTOP_SESSION.some => result.val = UnknownVariant(UnknownText)
    /\ \A k \in KnownSessions :
          (/\ environ.DESKTOP_SESSION.some
           /\ environ.DESKTOP_SESSION.val \in CaseVariants(k.s)) =>
              result.val = Variant(k.v)

DesktopEnvUnknownName ==
    /\ environ.DESKTOP_SESSION.some
    /\ \A k \in KnownSessions : environ.DESKTOP_SESSION.val \notin CaseVariants(k.s)

C10_ArchClassified ==
    (query = "arch" /\ pc = "done") =>
        /\ result.kind = (IF kernel.uname_ok THEN "Ok" ELSE "Err")
        /\ kernel.uname_ok =>
              /\ \A e \in ArchTable : kernel.machine = e.s => result.val = Variant(e.arch)
              /\ kernel.machine \in {<<"x", "8", "6", "_", "6", "4">>, <<"a", "m", "d", "6", "4">>}
                    => result.val = Variant("X64")
              /\ kernel.machine \notin {e.s : e \in ArchTable}
                    => result.val = UnknownVariant(kernel.machine)

C10_Witness ==
    /\ query = "arch" /\ pc = "done"
    /\ kernel.machine = <<"l", "o", "o", "n", "g", "a", "r", "c", "h", "6", "4">>
    /\ result = Ok(UnknownVariant(<<"l", "o", "o", "n", "g", "a", "r", "c", "h", "6", "4">>))

====
